---------------------------- MODULE Spec2Model ----------------------------
(***************************************************************************)
(* Model of the equirectangular reprojector                               *)
(* (nerfstudio/process_data/equirect_utils.py) and of the ray compositor  *)
(* (pyrad/nerf/renderers.py).                                             *)
(*                                                                         *)
(* Angles are integers counted in 1/U of a degree, U = 16 * CropDen, and  *)
(* a crop fraction is a numerator n standing for n / CropDen.  With this  *)
(* unit 180 * crop_factor, fov / 2 and the two successive halvings        *)
(* diff / 2 ** k of _crop_bottom and _crop_top are all exact integers.    *)
(***************************************************************************)
EXTENDS Integers, Sequences, FiniteSets, TLC

\* Crop fractions are the multiples of 1 / CropDen.
CropDen == 36

\* Units per degree.
U == 16 * CropDen

Deg(d) == d * U

\* 180 * crop_factor and 360 * crop_factor, for the fraction n / CropDen.
Times180(n) == 180 * 16 * n

Times360(n) == 360 * 16 * n

(***************************************************************************)
(* Python's None, and a list entry that is either None or a number.       *)
(***************************************************************************)
None == <<>>

Some(v) == <<v>>

IsNone(x) == x = <<>>

Val(x) == x[1]

(***************************************************************************)
(* _crop_bottom.  The result is the mutated list and the exception raised *)
(* on the way, if any: comparing or subtracting from a None entry raises  *)
(* TypeError.                                                              *)
(***************************************************************************)
RECURSIVE BottomPropagate(_, _, _, _)
\* for j in range(i - 1, -1, -1): bound_arr[j] -= diff / (2 ** (i - j))
BottomPropagate(arr, i, j, diff) ==
    IF j = 0 THEN [arr |-> arr, err |-> "none"]
    ELSE IF IsNone(arr[j]) THEN [arr |-> arr, err |-> "TypeError"]
    ELSE BottomPropagate([arr EXCEPT ![j] = Some(Val(arr[j]) - diff \div 2^(i - j))],
                         i, j - 1, diff)

RECURSIVE BottomLoop(_, _, _, _)
\* for i, el in reversed(list(enumerate(bound_arr))): ...
BottomLoop(arr, i, new_bottom_start, half_fov) ==
    IF i = 0 THEN [arr |-> arr, err |-> "none"]
    ELSE IF IsNone(arr[i]) THEN [arr |-> arr, err |-> "TypeError"]
    ELSE IF Val(arr[i]) > new_bottom_start + half_fov
         THEN BottomLoop([arr EXCEPT ![i] = None], i - 1, new_bottom_start, half_fov)
    ELSE IF Val(arr[i]) > new_bottom_start
         THEN BottomPropagate([arr EXCEPT ![i] = Some(new_bottom_start)], i, i - 1,
                              Val(arr[i]) - new_bottom_start)
    ELSE BottomLoop(arr, i - 1, new_bottom_start, half_fov)

crop_bottom(bound_arr, fov, crop_factor) ==
    LET degrees_chopped == Times180(crop_factor)
        new_bottom_start == Deg(90) - degrees_chopped - Deg(fov) \div 2
    IN  BottomLoop(bound_arr, Len(bound_arr), new_bottom_start, Deg(fov) \div 2)

(***************************************************************************)
(* _crop_top.                                                              *)
(***************************************************************************)
RECURSIVE TopPropagate(_, _, _, _)
\* for j in range(i + 1, len(bound_arr)): bound_arr[j] += diff / (2 ** (j - i))
TopPropagate(arr, i, j, diff) ==
    IF j > Len(arr) THEN [arr |-> arr, err |-> "none"]
    ELSE IF IsNone(arr[j]) THEN [arr |-> arr, err |-> "TypeError"]
    ELSE TopPropagate([arr EXCEPT ![j] = Some(Val(arr[j]) + diff \div 2^(j - i))],
                      i, j + 1, diff)

RECURSIVE TopLoop(_, _, _, _)
\* for i, el in enumerate(bound_arr): ...
TopLoop(arr, i, new_top_start, half_fov) ==
    IF i > Len(arr) THEN [arr |-> arr, err |-> "none"]
    ELSE IF IsNone(arr[i]) THEN [arr |-> arr, err |-> "TypeError"]
    ELSE IF Val(arr[i]) < new_top_start - half_fov
         THEN TopLoop([arr EXCEPT ![i] = None], i + 1, new_top_start, half_fov)
    ELSE IF Val(arr[i]) < new_top_start
         THEN TopPropagate([arr EXCEPT ![i] = Some(new_top_start)], i, i + 1,
                           new_top_start - Val(arr[i]))
    ELSE TopLoop(arr, i + 1, new_top_start, half_fov)

crop_top(bound_arr, fov, crop_factor) ==
    LET degrees_chopped == Times180(crop_factor)
        new_top_start == Deg(-90) + degrees_chopped + Deg(fov) \div 2
    IN  TopLoop(bound_arr, 1, new_top_start, Deg(fov) \div 2)

(***************************************************************************)
(* _crop_bound_arr_vertical: crop_factor is (top, bottom, left, right),   *)
(* Python's crop_factor[0..3] being crop_factor[1..4] here.               *)
(***************************************************************************)
crop_bound_arr_vertical(bound_arr, fov, crop_factor) ==
    LET afterBottom == IF crop_factor[2] > 0
                       THEN crop_bottom(bound_arr, fov, crop_factor[2])
                       ELSE [arr |-> bound_arr, err |-> "none"]
    IN  IF afterBottom.err # "none" THEN afterBottom
        ELSE IF crop_factor[1] > 0
             THEN crop_top(afterBottom.arr, fov, crop_factor[1])
             ELSE afterBottom

(***************************************************************************)
(* Orientation-pattern generation.                                        *)
(***************************************************************************)
\* left_bound, right_bound = -180, 180, narrowed by the crop fractions.
LeftBound(crop_factor) ==
    IF crop_factor[4] > 0 THEN Deg(-180) + Times360(crop_factor[4]) ELSE Deg(-180)

RightBound(crop_factor) ==
    IF crop_factor[3] > 0 THEN Deg(180) - Times360(crop_factor[3]) ELSE Deg(180)

\* fov = 120, reassigned to 110 in the samples_per_im == 14 branch.
FovOf(samples) == IF samples = 14 THEN 110 ELSE 120

\* The base bound array [-45, 0, 45].
BaseBounds == <<Some(Deg(-45)), Some(Deg(0)), Some(Deg(45))>>

\* The length when the stop value itself is produced too.
ArangeLenInclusive(start, stop, step) ==
    IF stop < start THEN 0 ELSE (stop - start) \div step + 1

\* len(np.arange(start, stop, step)) = ceil((stop - start) / step), at least 0.
ArangeLen(start, stop, step) ==
    IF stop <= start THEN 0 ELSE (stop - start + step - 1) \div step

\* np.arange(start, stop, step)
Arange(start, stop, step) ==
    [k \in 1..ArangeLen(start, stop, step) |-> start + (k - 1) * step]

\* for i in np.arange(left, right, step): yaw_pitch_pairs.append((i, band))
BandPairs(band, left, right, step) ==
    IF IsNone(band) THEN <<>>
    ELSE LET yaws == Arange(left, right, step)
         IN  [k \in 1..Len(yaws) |-> <<yaws[k], Val(band)>>]

\* Yaw step of the equator band and of the two outer bands.
EquatorStep(samples) == IF samples = 8 THEN 90 ELSE 60

OuterStep(samples) == IF samples = 8 THEN 180 ELSE 90

\* The three loops that fill yaw_pitch_pairs: band 1, then band 2, then band 0.
EmitPairs(samples, arr, left, right) ==
    IF samples \notin {8, 14} THEN <<>>
    ELSE BandPairs(arr[2], left, right, Deg(EquatorStep(samples)))
         \o BandPairs(arr[3], left, right, Deg(OuterStep(samples)))
         \o BandPairs(arr[1], left, right, Deg(OuterStep(samples)))

(***************************************************************************)
(* File names are sequences of characters, so that i.lower(),             *)
(* i.endswith(...), i[:-4] and the f-string that names an output file are *)
(* computed the way Python computes them.                                  *)
(***************************************************************************)
\* The most source files a directory holds.
MaxFiles == 3

Name_a_jpg == <<"a", ".", "j", "p", "g">>

Name_a_PNG == <<"a", ".", "P", "N", "G">>

Name_b_jpeg == <<"b", ".", "j", "p", "e", "g">>

Name_c_exr == <<"c", ".", "e", "x", "r">>

Name_n_txt == <<"n", ".", "t", "x", "t">>

\* image_dir / "planar_projections"
OutputDirName ==
    <<"p", "l", "a", "n", "a", "r", "_", "p", "r", "o", "j", "e", "c", "t", "i", "o", "n", "s">>

FilePool == {Name_a_jpg, Name_a_PNG, Name_b_jpeg, Name_c_exr, Name_n_txt}

\* str.lower(), on the upper-case letters the names hold
LowerChar(c) ==
    IF c = "P" THEN "p" ELSE IF c = "N" THEN "n" ELSE IF c = "G" THEN "g" ELSE c

Lower(s) == [k \in 1..Len(s) |-> LowerChar(s[k])]

\* str.endswith(suffix)
EndsWith(s, suffix) ==
    /\ Len(s) >= Len(suffix)
    /\ SubSeq(s, Len(s) - Len(suffix) + 1, Len(s)) = suffix

Ext_jpg == <<".", "j", "p", "g">>

Ext_png == <<".", "p", "n", "g">>

Ext_jpeg == <<".", "j", "p", "e", "g">>

Ext_exr == <<".", "e", "x", "r">>

\* i.lower().endswith((".jpg", ".png", ".jpeg")), and with ".exr" in the GT variant.
Recognized(i, f) ==
    \/ EndsWith(Lower(i), Ext_jpg)
    \/ EndsWith(Lower(i), Ext_png)
    \/ EndsWith(Lower(i), Ext_jpeg)
    \/ (f = "GT" /\ EndsWith(Lower(i), Ext_exr))

IsExr(i) == EndsWith(Lower(i), Ext_exr)

\* i[:-4]
DropLast4(i) == SubSeq(i, 1, Len(i) - 4)

Digit(d) ==
    CASE d = 0 -> "0" [] d = 1 -> "1" [] d = 2 -> "2" [] d = 3 -> "3" [] d = 4 -> "4"
      [] d = 5 -> "5" [] d = 6 -> "6" [] d = 7 -> "7" [] d = 8 -> "8" [] d = 9 -> "9"

RECURSIVE Str(_)
\* The decimal digits of count, as the f-string formats it.
Str(n) == IF n < 10 THEN <<Digit(n)>> ELSE Str(n \div 10) \o <<Digit(n % 10)>>

\* f"{i[:-4]}_{count}.png" (".exr" for an .exr source), inside output_dir.
OutName(i, count, ext) == DropLast4(i) \o <<"_">> \o Str(count) \o ext

\* All orders os.listdir may return the entries in.
Listings(entries) ==
    {l \in [1..Cardinality(entries) -> entries] :
        \A a, b \in 1..Cardinality(entries) : a # b => l[a] # l[b]}

(***************************************************************************)
(* State of one run of generate_planar_projections_from_equirectangular   *)
(* (fn = "plain") or of its _GT variant (fn = "GT").                      *)
(***************************************************************************)
VARIABLES
    pc,                     \* position of the run in the function body
    fn,                     \* which of the two entry points runs
    samples_per_im,         \* argument
    crop_factor,            \* argument: numerators of (top, bottom, left, right)
    metadata_frames,        \* length of the "frames" list of the metadata file
    err,                    \* how the run ended early: SystemExit or an exception
    fov, left_bound, right_bound, bound_arr, yaw_pitch_pairs,
    camera_to_worlds_panos, \* the loaded poses; pose k is the k-th metadata entry
    metadata_loaded,
    dir_entries,            \* the names in image_dir
    output_dir_made,
    listing, pos,           \* os.listdir(frame_dir) and the loop's place in it
    idx,
    images_read,            \* the names passed to cv2.imread
    frames,                 \* the frame records appended so far
    out_files,              \* output_dir: the file of each name and who wrote it
    clobbered,              \* the (source, count) pairs whose file was overwritten
    transforms_written

(***************************************************************************)
(* State of one use of a renderer of pyrad/nerf/renderers.py.             *)
(***************************************************************************)
VARIABLES
    r_pc,                   \* position of the renderer's caller
    depth_method,           \* DepthRenderer.method once constructed, else "unset"
    r_err,                  \* the exception the last renderer call raised
    method_arg,             \* the method DepthRenderer was asked for
    weights, ts,            \* arguments of the call
    rgb, background_color,
    sh, directions, activation,
    depth_out,              \* DepthRenderer.forward's result
    sh_rgb,                 \* the rgb SHRenderer.forward hands to combine_rgb
    rgb_out                 \* combine_rgb's result

renderVars ==
    <<r_pc, depth_method, r_err, method_arg, weights, ts, rgb, background_color, sh, directions,
      activation, depth_out, sh_rgb, rgb_out>>

\* No renderer in use.
RenderIdle ==
    /\ r_pc = "idle" /\ depth_method = "unset" /\ r_err = "none"
    /\ method_arg = "unset"
    /\ weights = <<>> /\ ts = <<>> /\ rgb = <<>> /\ background_color = <<>>
    /\ sh = <<>> /\ directions = <<>> /\ activation = "unset"
    /\ depth_out = <<>> /\ sh_rgb = <<>> /\ rgb_out = <<>>

runVars ==
    <<pc, fn, samples_per_im, crop_factor, metadata_frames, err, fov, left_bound,
      right_bound, bound_arr, yaw_pitch_pairs, camera_to_worlds_panos,
      metadata_loaded, dir_entries, output_dir_made, listing, pos, idx, images_read,
      frames, out_files, clobbered, transforms_written>>

patternVars == <<fov, left_bound, right_bound, bound_arr, yaw_pitch_pairs>>

ioVars ==
    <<camera_to_worlds_panos, metadata_loaded, dir_entries, output_dir_made, listing,
      pos, idx, images_read, frames, out_files, clobbered, transforms_written>>

argVars == <<fn, samples_per_im, crop_factor, metadata_frames>>

\* The state a run starts in, whatever its arguments.
RunStart ==
    /\ err = "none"
    /\ fov = 0 /\ left_bound = 0 /\ right_bound = 0
    /\ bound_arr = <<>> /\ yaw_pitch_pairs = <<>>
    /\ camera_to_worlds_panos = <<>> /\ metadata_loaded = FALSE
    /\ output_dir_made = FALSE
    /\ listing = <<>> /\ pos = 0 /\ idx = 0
    /\ images_read = {} /\ frames = <<>> /\ out_files = {} /\ clobbered = {}
    /\ transforms_written = FALSE

\* The validation with the upper limit left unchecked.
InvalidCropLowOnly(cf) == \E k \in 1..4 : cf[k] < 0

(***************************************************************************)
(* for i in crop_factor: if i < 0 or i > 1: ...; sys.exit(1)              *)
(***************************************************************************)
InvalidCrop(cf) == \E k \in 1..4 : cf[k] < 0 \/ cf[k] > CropDen

Validate ==
    /\ pc = "validate"
    /\ IF InvalidCrop(crop_factor)
       THEN pc' = "exited" /\ err' = "SystemExit"
       ELSE pc' = (IF fn = "GT" THEN "load_metadata" ELSE "bounds") /\ err' = err
    /\ UNCHANGED <<argVars, renderVars, patternVars, ioVars>>

\* metadata_dict = io.load_from_json(metadata_path) ... camera_to_worlds_panos
LoadMetadata ==
    /\ pc = "load_metadata"
    /\ metadata_loaded' = TRUE
    /\ camera_to_worlds_panos' = [k \in 1..metadata_frames |-> k]
    /\ pc' = "bounds"
    /\ UNCHANGED <<argVars, renderVars, err, patternVars, dir_entries, output_dir_made, listing,
                   pos, idx, images_read, frames, out_files, clobbered,
                   transforms_written>>

\* fov = 120; yaw_pitch_pairs = []; left_bound, right_bound = ...
Bounds ==
    /\ pc = "bounds"
    /\ fov' = 120
    /\ yaw_pitch_pairs' = <<>>
    /\ left_bound' = LeftBound(crop_factor)
    /\ right_bound' = RightBound(crop_factor)
    /\ pc' = "crop"
    /\ UNCHANGED <<argVars, renderVars, err, bound_arr, ioVars>>

\* fov and bound_arr = _crop_bound_arr_vertical([-45, 0, 45], fov, crop_factor)
Crop ==
    /\ pc = "crop"
    /\ IF samples_per_im \in {8, 14}
       THEN LET r == crop_bound_arr_vertical(BaseBounds, FovOf(samples_per_im),
                                             crop_factor)
            IN  /\ fov' = FovOf(samples_per_im)
                /\ bound_arr' = r.arr
                /\ err' = r.err
                /\ pc' = (IF r.err = "none" THEN "emit" ELSE "raised")
       ELSE UNCHANGED <<fov, bound_arr, err>> /\ pc' = "emit"
    /\ UNCHANGED <<argVars, renderVars, left_bound, right_bound, yaw_pitch_pairs, ioVars>>

\* the loops over np.arange(left_bound, right_bound, step) of the three bands
Emit ==
    /\ pc = "emit"
    /\ yaw_pitch_pairs' = EmitPairs(samples_per_im, bound_arr, left_bound, right_bound)
    /\ pc' = "mkdir"
    /\ UNCHANGED <<argVars, renderVars, err, fov, left_bound, right_bound, bound_arr, ioVars>>

(***************************************************************************)
(* The image loop.                                                         *)
(***************************************************************************)
\* equi2pers = Equi2Pers(...); output_dir = image_dir / "planar_projections";
\* output_dir.mkdir(exist_ok=True)
MkDir ==
    /\ pc = "mkdir"
    /\ output_dir_made' = TRUE
    /\ dir_entries' = dir_entries \cup {OutputDirName}
    /\ pc' = "listdir"
    /\ UNCHANGED <<argVars, renderVars, err, patternVars, camera_to_worlds_panos, metadata_loaded,
                   listing, pos, idx, images_read, frames, out_files, clobbered,
                   transforms_written>>

\* os.listdir(frame_dir), in whatever order the file system gives;
\* frames = []; idx = 0
ListDir ==
    /\ pc = "listdir"
    /\ listing' \in Listings(dir_entries)
    /\ pos' = 1
    /\ idx' = 0
    /\ frames' = <<>>
    /\ pc' = "loop"
    /\ UNCHANGED <<argVars, renderVars, err, patternVars, camera_to_worlds_panos, metadata_loaded,
                   dir_entries, output_dir_made, images_read, out_files, clobbered,
                   transforms_written>>

\* A perspective frame's transform: the translation and the parent rotation of
\* panorama pose `pano`, composed with the inverse rotation of (yaw, pitch).
Frame(path, pano, pair) ==
    [file_path |-> path, pano |-> pano, yaw |-> pair[1], pitch |-> pair[2]]

RECURSIVE WritePairs(_, _, _, _, _, _)
\* for u_deg, v_deg in yaw_pitch_pairs: cv2.imwrite(...); frames.append(frame);
\* count += 1.  st holds output_dir, the overwritten pairs and the frame list.
WritePairs(st, i, ext, pano, pairs, count) ==
    IF count >= Len(pairs) THEN st
    ELSE LET name == OutName(i, count, ext)
             old == {f \in st.files : f.name = name}
         IN  WritePairs(
                 [files |-> (st.files \ old) \cup {[name |-> name, src |-> i, count |-> count]},
                  clob |-> st.clob \cup {<<f.src, f.count>> : f \in old},
                  frames |-> IF fn = "GT"
                             THEN Append(st.frames, Frame(name, pano, pairs[count + 1]))
                             ELSE st.frames],
                 i, ext, pano, pairs, count + 1)

\* The pose index used for the entry at the loop's place.
PoseIndex == idx

\* One iteration of `for i in progress.track(os.listdir(frame_dir), ...)`.
ProcessEntry ==
    /\ pc = "loop"
    /\ pos <= Len(listing)
    /\ LET i == listing[pos]
           ext == IF fn = "GT" /\ IsExr(i) THEN Ext_exr ELSE Ext_png
       IN  IF ~Recognized(i, fn)
           THEN /\ idx' = (IF fn = "GT" THEN idx + 1 ELSE idx)
                /\ pos' = pos + 1
                /\ UNCHANGED <<pc, err, images_read, frames, out_files, clobbered>>
           ELSE IF fn = "GT" /\ PoseIndex >= Len(camera_to_worlds_panos)
           THEN \* camera_to_worlds_panos[idx] raises after the image was read
                /\ images_read' = images_read \cup {i}
                /\ err' = "IndexError"
                /\ pc' = "raised"
                /\ UNCHANGED <<pos, idx, frames, out_files, clobbered>>
           ELSE LET pano == IF fn = "GT" THEN camera_to_worlds_panos[PoseIndex + 1] ELSE 0
                    st == WritePairs([files |-> out_files, clob |-> clobbered,
                                      frames |-> frames],
                                     i, ext, pano, yaw_pitch_pairs, 0)
                IN  /\ images_read' = images_read \cup {i}
                    /\ out_files' = st.files
                    /\ clobbered' = st.clob
                    /\ frames' = st.frames
                    /\ idx' = (IF fn = "GT" THEN idx + 1 ELSE idx)
                    /\ pos' = pos + 1
                    /\ UNCHANGED <<pc, err>>
    /\ UNCHANGED <<argVars, renderVars, patternVars, camera_to_worlds_panos, metadata_loaded,
                   dir_entries, output_dir_made, listing, transforms_written>>

\* The loop is over: the plain variant returns output_dir.
LoopDone ==
    /\ pc = "loop"
    /\ pos > Len(listing)
    /\ pc' = (IF fn = "GT" THEN "write_transforms" ELSE "returned")
    /\ UNCHANGED <<argVars, renderVars, err, patternVars, ioVars>>

\* with open(output_dir / "transforms.json", "w") ...: json.dump(out, f)
WriteTransforms ==
    /\ pc = "write_transforms"
    /\ transforms_written' = TRUE
    /\ pc' = "returned"
    /\ UNCHANGED <<argVars, renderVars, err, patternVars, camera_to_worlds_panos, metadata_loaded,
                   dir_entries, output_dir_made, listing, pos, idx, images_read, frames,
                   out_files, clobbered>>

(***************************************************************************)
(* Whole runs of either entry point.                                       *)
(***************************************************************************)
Quarter == CropDen \div 4

Half == CropDen \div 2

NoCrop == <<0, 0, 0, 0>>

\* The crop factors a run is given: valid ones, and each fraction out of range.
RunCrops ==
    {NoCrop, <<Quarter, 0, 0, 0>>, <<0, Quarter, 0, 0>>, <<0, CropDen, 0, 0>>,
     <<Quarter, Quarter, Quarter, Quarter>>, <<Quarter, Half, 0, 0>>}
    \cup {[NoCrop EXCEPT ![k] = v] : k \in 1..4, v \in {-1, CropDen + 1}}

\* The source panoramas of a directory, as the GT variant recognizes them.
Panoramas(entries) == {i \in entries : Recognized(i, "GT")}

InitRun ==
    /\ pc = "validate"
    /\ fn \in {"plain", "GT"}
    /\ samples_per_im \in {8, 14, 16}
    /\ crop_factor \in RunCrops
    /\ dir_entries \in {d \in SUBSET FilePool : Cardinality(d) <= MaxFiles}
    /\ metadata_frames = (IF fn = "GT" THEN Cardinality(Panoramas(dir_entries)) ELSE 0)
    /\ RunStart
    /\ RenderIdle

NextRun ==
    \/ Validate
    \/ LoadMetadata
    \/ Bounds
    \/ Crop
    \/ Emit
    \/ MkDir
    \/ ListDir
    \/ ProcessEntry
    \/ LoopDone
    \/ WriteTransforms

vars == <<runVars, renderVars>>

SpecRun == InitRun /\ [][NextRun]_vars

(***************************************************************************)
(* Orientation-pattern generation alone, over the grid of crop fractions: *)
(* the run stands after the validation (and, in the GT variant, after the *)
(* metadata was loaded).                                                   *)
(***************************************************************************)
\* The horizontal crop fractions tried.
HorizontalCrops == {0, Quarter, Half}

InitPattern ==
    /\ pc = "bounds"
    /\ fn \in {"plain", "GT"}
    /\ samples_per_im \in {8, 14}
    /\ crop_factor \in {<<t, b, l, r>> : t \in 0..CropDen, b \in 0..CropDen,
                                         l \in HorizontalCrops, r \in HorizontalCrops}
    /\ dir_entries = {}
    /\ metadata_frames = 0
    /\ err = "none"
    /\ fov = 0 /\ left_bound = 0 /\ right_bound = 0
    /\ bound_arr = <<>> /\ yaw_pitch_pairs = <<>>
    /\ camera_to_worlds_panos = <<>> /\ metadata_loaded = (fn = "GT")
    /\ output_dir_made = FALSE
    /\ listing = <<>> /\ pos = 0 /\ idx = 0
    /\ images_read = {} /\ frames = <<>> /\ out_files = {} /\ clobbered = {}
    /\ transforms_written = FALSE
    /\ RenderIdle

NextPattern ==
    \/ Bounds
    \/ Crop
    \/ Emit

SpecPattern == InitPattern /\ [][NextPattern]_vars

(***************************************************************************)
(* Properties of the reprojector.                                          *)
(***************************************************************************)
\* The run is past the loops that fill yaw_pitch_pairs.
PatternEmitted ==
    \/ pc \in {"mkdir", "listdir", "loop", "write_transforms", "returned"}
    \/ (pc = "raised" /\ err = "IndexError")

\* _crop_bound_arr_vertical has returned an array.
CropReturned == samples_per_im \in {8, 14} /\ (pc = "emit" \/ PatternEmitted)

CropOutOfRange == \E k \in 1..4 : crop_factor[k] < 0 \/ crop_factor[k] > CropDen

\* C1: in both entry points, a crop fraction < 0 or > 1 ends the run with the
\* fatal exit before any effect: the output directory is not created, no
\* metadata is loaded, no image is read or written, no transforms.json is written.
C1_InvalidCropNoEffect ==
    CropOutOfRange =>
        /\ pc \in {"validate", "exited"}
        /\ (pc = "exited" => err = "SystemExit")
        /\ ~output_dir_made /\ OutputDirName \notin dir_entries
        /\ ~metadata_loaded /\ camera_to_worlds_panos = <<>>
        /\ images_read = {} /\ out_files = {} /\ frames = <<>>
        /\ ~transforms_written

\* A GT run given a bottom fraction above 1 has exited.
C1_Witness ==
    pc = "exited" /\ err = "SystemExit" /\ fn = "GT" /\ crop_factor[2] > CropDen

\* The indices of the pairs at pitch p (in degrees), and their yaws.
PairsAt(p) == {k \in 1..Len(yaw_pitch_pairs) : yaw_pitch_pairs[k][2] = Deg(p)}

YawsAt(p) == {yaw_pitch_pairs[k][1] : k \in PairsAt(p)}

DegSet(S) == {Deg(d) : d \in S}

\* C2: with crop_factor = (0,0,0,0) the pattern has exactly samples_per_im pairs:
\* for 8, 4 at pitch 0 (yaw step 90) and 2 each at pitch 45 and -45 (yaw step
\* 180); for 14, 6 at pitch 0 (yaw step 60) and 4 each at pitch 45 and -45 (yaw
\* step 90); every yaw lies in [-180, 180) and no pair is repeated.
C2_NoCropPattern ==
    (PatternEmitted /\ crop_factor = NoCrop /\ samples_per_im \in {8, 14}) =>
        /\ Len(yaw_pitch_pairs) = samples_per_im
        /\ samples_per_im = 8 =>
              /\ Cardinality(PairsAt(0)) = 4
              /\ YawsAt(0) = DegSet({-180, -90, 0, 90})
              /\ Cardinality(PairsAt(45)) = 2 /\ YawsAt(45) = DegSet({-180, 0})
              /\ Cardinality(PairsAt(-45)) = 2 /\ YawsAt(-45) = DegSet({-180, 0})
        /\ samples_per_im = 14 =>
              /\ Cardinality(PairsAt(0)) = 6
              /\ YawsAt(0) = DegSet({-180, -120, -60, 0, 60, 120})
              /\ Cardinality(PairsAt(45)) = 4
              /\ YawsAt(45) = DegSet({-180, -90, 0, 90})
              /\ Cardinality(PairsAt(-45)) = 4
              /\ YawsAt(-45) = DegSet({-180, -90, 0, 90})
        /\ \A k \in 1..Len(yaw_pitch_pairs) :
              yaw_pitch_pairs[k][1] >= Deg(-180) /\ yaw_pitch_pairs[k][1] < Deg(180)
        /\ \A a, b \in 1..Len(yaw_pitch_pairs) :
              a # b => yaw_pitch_pairs[a] # yaw_pitch_pairs[b]

\* The uncropped pattern of 14 samples was emitted by the GT variant.
C2_Witness ==
    /\ pc = "mkdir" /\ fn = "GT" /\ crop_factor = NoCrop /\ samples_per_im = 14
    /\ Len(yaw_pitch_pairs) = 14

\* The non-null entries of an array, in order.
NonNull(arr) == SelectSeq(arr, LAMBDA x : ~IsNone(x))

Ascending(arr) ==
    \A a, b \in 1..Len(NonNull(arr)) : a < b => Val(NonNull(arr)[a]) <= Val(NonNull(arr)[b])

\* C3: for the base array [-45, 0, 45], fov in {110, 120} and every (top, bottom)
\* in [0,1]^2, the array _crop_bound_arr_vertical returns is in ascending order
\* among its non-null entries.
C3_CroppedBoundsAscending == CropReturned => Ascending(bound_arr)

\* C10: every pitch that survives vertical cropping respects both thresholds:
\* with bottom fraction cb > 0 it is <= 90 - 180*cb - fov/2, with top fraction
\* ct > 0 it is >= -90 + 180*ct + fov/2, also when both crops are applied.
C10_PitchesRespectThresholds ==
    CropReturned =>
        \A k \in 1..Len(bound_arr) :
            ~IsNone(bound_arr[k]) =>
                /\ crop_factor[2] > 0 =>
                      Val(bound_arr[k])
                          <= Deg(90) - Times180(crop_factor[2]) - Deg(fov) \div 2
                /\ crop_factor[1] > 0 =>
                      Val(bound_arr[k])
                          >= Deg(-90) + Times180(crop_factor[1]) + Deg(fov) \div 2

\* The run is past the assignments of left_bound and right_bound.
BoundsComputed == pc \in {"crop", "emit"} \/ PatternEmitted \/ err = "TypeError"

\* C11: for crop_factor = (top, bottom, left, right), left_bound is -180 raised
\* by 360 x the left fraction when that fraction is > 0, right_bound is 180
\* lowered by 360 x the right fraction when that fraction is > 0, each side's
\* bound being unchanged by the other side's fraction, and every emitted yaw
\* lies in [left_bound, right_bound).
C11_YawRangeBySide ==
    /\ BoundsComputed =>
          /\ left_bound = (IF crop_factor[3] > 0
                           THEN Deg(-180) + 360 * 16 * crop_factor[3]
                           ELSE Deg(-180))
          /\ right_bound = (IF crop_factor[4] > 0
                            THEN Deg(180) - 360 * 16 * crop_factor[4]
                            ELSE Deg(180))
    /\ PatternEmitted =>
          \A k \in 1..Len(yaw_pitch_pairs) :
              /\ yaw_pitch_pairs[k][1] >= left_bound
              /\ yaw_pitch_pairs[k][1] < right_bound

\* C12: for samples_per_im in {8, 14} and every crop factor with its four
\* fractions in [0,1], orientation-pattern generation raises no error:
\* _crop_bottom followed by _crop_top never compares or adds to a band set to
\* null, and the result is a 3-element array of numbers and nulls.
C12_PatternNeverRaises ==
    (samples_per_im \in {8, 14} /\ ~CropOutOfRange) =>
        /\ err # "TypeError"
        /\ ~(pc = "raised" /\ ~PatternEmitted)
        /\ CropReturned =>
              /\ Len(bound_arr) = 3
              /\ \A k \in 1..3 : IsNone(bound_arr[k]) \/ bound_arr[k] = Some(Val(bound_arr[k]))

\* The number of source panoramas listed before place q.
SourcesBefore(q) ==
    Cardinality({m \in 1..(q - 1) : Recognized(listing[m], "GT")})

\* C4: in the GT variant the k-th source panorama of the listing takes its pose
\* from the k-th entry of the metadata "frames" list, and with one transform per
\* source image no pose lookup falls outside the list.
C4_PoseOfKthPanorama ==
    (fn = "GT" /\ metadata_frames = Cardinality(Panoramas(dir_entries))) =>
        /\ err # "IndexError"
        /\ (pc = "loop" /\ pos <= Len(listing) /\ Recognized(listing[pos], "GT")) =>
              PoseIndex = SourcesBefore(pos)
        /\ \A k \in 1..Len(frames) :
              \E q \in 1..Len(listing) :
                  /\ Recognized(listing[q], "GT")
                  /\ frames[k].pano = SourcesBefore(q) + 1
                  /\ \E c \in 0..Len(yaw_pitch_pairs) :
                        frames[k].file_path
                            = OutName(listing[q], c,
                                      IF IsExr(listing[q]) THEN Ext_exr ELSE Ext_png)

\* pathlib's stem: the name up to its last dot.
LastDot(i) == CHOOSE k \in 1..Len(i) : i[k] = "." /\ \A m \in (k + 1)..Len(i) : i[m] # "."

Stem(i) == SubSeq(i, 1, LastDot(i) - 1)

\* C5: after the plain variant ran on N recognized files with a pattern of M
\* samples, output_dir holds exactly N x M images, one distinct file named
\* <source_stem>_<index>.png per (source, index) pair, and no write of one pair
\* overwrote the file of another.
C5_OneFilePerPair ==
    (fn = "plain" /\ pc = "returned") =>
        LET sources == {i \in dir_entries : Recognized(i, "plain")}
            M == Len(yaw_pitch_pairs)
        IN  /\ Cardinality(out_files) = Cardinality(sources) * M
            /\ clobbered = {}
            /\ \A i \in sources, c \in 0..(M - 1) :
                  \E f \in out_files :
                      /\ f.src = i /\ f.count = c
                      /\ f.name = Stem(i) \o <<"_">> \o Str(c) \o Ext_png

(***************************************************************************)
(* The ray compositor.  A weight is a numerator a standing for a / WUnit; *)
(* colours and spherical-harmonic values are counted in thousandths.      *)
(***************************************************************************)
\* Weights are the multiples of 1 / WUnit.
WUnit == 2

\* The largest weight numerator.
MaxW == 3

\* The most samples along a ray.
MaxSamples == 2

\* The largest sample position.
MaxT == 3

RECURSIVE Sum(_)
\* torch.sum over the sample axis
Sum(s) == IF s = <<>> THEN 0 ELSE Head(s) + Sum(Tail(s))

\* weights * ts, elementwise
Times(a, b) == [k \in 1..Len(a) |-> a[k] * b[k]]

(***************************************************************************)
(* DepthRenderer.                                                          *)
(***************************************************************************)
\* The constructor's test with every method let through.
MethodAcceptedAlways(method) == TRUE

\* not (method not in {"expected"})
MethodAccepted(method) == method \in {"expected"}

\* DepthRenderer(method)
DepthInit ==
    /\ r_pc = "idle"
    /\ \E method \in {"expected", "median", "max"} :
          /\ method_arg' = method
          /\ IF MethodAccepted(method)
             THEN depth_method' = method /\ r_pc' = "depth_ready" /\ r_err' = r_err
             ELSE depth_method' = depth_method /\ r_pc' = "raised"
                  /\ r_err' = "ValueError"
    /\ UNCHANGED <<weights, ts, rgb, background_color, sh, directions, activation,
                   depth_out, sh_rgb, rgb_out>>
    /\ UNCHANGED runVars

(***************************************************************************)
(* The expected depth torch.sum(weights * ts) / (torch.sum(weights) + eps) *)
(* is the ratio num / (den + WUnit * eps) of the integers                  *)
(* num = Sum(a * ts) and den = Sum(a).  eps = 1e-10, so for a sample      *)
(* position t of the model t * WUnit * eps lies strictly between -1 and 1 *)
(* and has the sign of t; num - t * den is an integer.  That decides the  *)
(* comparisons of the ratio with t exactly.                                *)
(***************************************************************************)
RawDepth(w, t) == [kind |-> "ratio", num |-> Sum(Times(w, t)), den |-> Sum(w)]

\* A depth equal to the sample position t.
AtSample(t) == [kind |-> "sample", t |-> t]

\* num / (den + WUnit * eps) < t
RatioLess(d, t) ==
    IF t > 0 THEN d.num - t * d.den <= 0 ELSE d.num - t * d.den < 0

\* num / (den + WUnit * eps) > t
RatioGreater(d, t) ==
    IF t > 0 THEN d.num - t * d.den >= 1
    ELSE IF t = 0 THEN d.num > 0 ELSE d.num - t * d.den >= 0

\* The clip left out.
NoClip(d, lo, hi) == d

\* torch.clip(depth, lo, hi) = min(max(depth, lo), hi)
Clip(d, lo, hi) ==
    IF RatioLess(d, lo)
    THEN (IF lo > hi THEN AtSample(hi) ELSE AtSample(lo))
    ELSE (IF RatioGreater(d, hi) THEN AtSample(hi) ELSE d)

\* DepthRenderer.forward(weights, ts)
DepthForward ==
    /\ r_pc = "depth_ready"
    /\ \E n \in 1..MaxSamples :
          \E w \in [1..n -> 0..MaxW], t \in [1..n -> (-1)..MaxT] :
              /\ weights' = w
              /\ ts' = t
              /\ IF depth_method = "expected"
                 THEN /\ depth_out' = Clip(RawDepth(w, t), t[1], t[n])
                      /\ r_err' = r_err
                      /\ r_pc' = "depth_done"
                 ELSE /\ depth_out' = depth_out
                      /\ r_err' = "NotImplementedError"
                      /\ r_pc' = "raised"
    /\ UNCHANGED <<depth_method, method_arg, rgb, background_color, sh, directions,
                   activation, sh_rgb, rgb_out>>
    /\ UNCHANGED runVars

(***************************************************************************)
(* RGBRenderer.combine_rgb.  The result is held multiplied by WUnit.      *)
(***************************************************************************)
\* The colours tried, in thousandths.
Palette == {<<0, 0, 0>>, <<1000, 1000, 1000>>, <<1000, 0, 500>>}

\* One channel of every sample.
Channel(colors, c) == [k \in 1..Len(colors) |-> colors[k][c]]

\* The composite with the background added unattenuated.
combine_rgb_full_background(colors, w, background) ==
    [c \in 1..3 |-> Sum(Times(w, Channel(colors, c))) + background[c] * WUnit]

\* rgb = sum(weights * rgb) + background_color * (1.0 - sum(weights))
combine_rgb(colors, w, background) ==
    [c \in 1..3 |-> Sum(Times(w, Channel(colors, c))) + background[c] * (WUnit - Sum(w))]

\* The colour combine_rgb composites over: the one supplied, or, for None,
\* any colour torch.rand_like may draw.
BackgroundUsed(background) == IF IsNone(background) THEN Palette ELSE {background}

\* RGBRenderer.combine_rgb(rgb, weights, background_color)
CombineRgb ==
    /\ r_pc = "idle"
    /\ \E n \in 1..MaxSamples :
          \E colors \in [1..n -> Palette], w \in [1..n -> 0..MaxW],
             background \in Palette \cup {None} :
              \E used \in BackgroundUsed(background) :
                  /\ rgb' = colors
                  /\ weights' = w
                  /\ background_color' = background
                  /\ rgb_out' = combine_rgb(colors, w, used)
    /\ r_pc' = "rgb_done"
    /\ UNCHANGED <<depth_method, r_err, method_arg, ts, sh, directions, activation,
                   depth_out, sh_rgb>>
    /\ UNCHANGED runVars

(***************************************************************************)
(* SHRenderer.forward.                                                     *)
(***************************************************************************)
\* sh.view(*sh.shape[:-1], 3, sh.shape[-1] // 3): 3 channels of K coefficients
View(v) ==
    LET K == Len(v) \div 3
    IN  [c \in 1..3 |-> [k \in 1..K |-> v[(c - 1) * K + k]]]

\* int(math.sqrt(K))
Levels(K) == CHOOSE l \in 0..K : l * l <= K /\ (l + 1) * (l + 1) > K

\* components_from_spherical_harmonics(levels, directions), in thousandths:
\* 0.282 for band 0, then 0.489 * y, 0.489 * z, 0.489 * x for band 1.
Components(levels, d) ==
    IF levels = 1 THEN <<282>>
    ELSE <<282, 489 * d[2], 489 * d[3], 489 * d[1]>>

\* The coefficient vectors tried, for K = 1 and for K = 4.
SHCoeffs(K) ==
    IF K = 1
    THEN {<<1, 0, 2>>, <<0, 0, 0>>}
    ELSE {<<1, 0, 0, 0, 0, 1, 0, 0, 0, 0, 1, 1>>,
          <<1, 1, 1, 1, 0, 0, 0, 0, -1, 0, -2, 0>>}

\* The sample directions tried.
Directions == {<<1, 0, 0>>, <<0, 0, 1>>}

\* rgb = torch.sum(sh, dim=-1) + 0.5, of one sample
SummedCoeffs(v) == [c \in 1..3 |-> 1000 * Sum(View(v)[c]) + 500]

\* self.activation(rgb): the call's value is dropped, so only a module that
\* works in place changes rgb.
AfterActivation(act, x) ==
    IF act = "ReLU_inplace" THEN [c \in 1..3 |-> IF x[c] < 0 THEN 0 ELSE x[c]] ELSE x

\* SHRenderer(background_color, activation).forward(sh, directions, weights)
SHForward ==
    /\ r_pc = "idle"
    /\ \E n \in 1..MaxSamples, K \in {1, 4} :
          \E coeffs \in [1..n -> SHCoeffs(K)], dirs \in [1..n -> Directions],
             w \in [1..n -> {0, 1, WUnit}],
             act \in {"None", "Sigmoid", "ReLU_inplace"},
             background \in {<<0, 0, 0>>, <<1000, 0, 500>>} :
              LET components == [k \in 1..n |-> Components(Levels(K), dirs[k])]
                  \* rgb = sh * components is overwritten by the sum of sh itself
                  \* before any use: components reaches no later value.
                  handed == [k \in 1..n |-> AfterActivation(act, SummedCoeffs(coeffs[k]))]
              IN  /\ sh' = coeffs
                  /\ directions' = dirs
                  /\ weights' = w
                  /\ activation' = act
                  /\ background_color' = background
                  /\ sh_rgb' = handed
                  /\ rgb_out' = combine_rgb(handed, w, background)
    /\ r_pc' = "sh_done"
    /\ UNCHANGED <<depth_method, r_err, method_arg, ts, rgb, depth_out>>
    /\ UNCHANGED runVars

\* No reprojection runs.
RunIdle ==
    /\ pc = "idle" /\ fn = "none" /\ samples_per_im = 0 /\ crop_factor = NoCrop
    /\ metadata_frames = 0 /\ dir_entries = {}
    /\ RunStart

InitRender == RenderIdle /\ RunIdle

NextRender ==
    \/ DepthInit
    \/ DepthForward
    \/ CombineRgb
    \/ SHForward

SpecRender == InitRender /\ [][NextRender]_vars

(***************************************************************************)
(* Properties of the ray compositor.                                       *)
(***************************************************************************)
NonDecreasing(t) == \A a, b \in 1..Len(t) : a < b => t[a] <= t[b]

\* lo <= d <= hi
DepthWithin(d, lo, hi) ==
    IF d.kind = "sample" THEN lo <= d.t /\ d.t <= hi
    ELSE ~RatioLess(d, lo) /\ ~RatioGreater(d, hi)

\* C6: for every ray with non-decreasing sample positions ts and non-negative
\* weights, all-zero weights included, DepthRenderer.forward returns a depth d
\* with ts[first] <= d <= ts[last].
C6_DepthWithinSamples ==
    (r_pc = "depth_done" /\ NonDecreasing(ts)) =>
        DepthWithin(depth_out, ts[1], ts[Len(ts)])

\* All weights are zero and the first sample lies beyond 0: the expectation 0
\* was clipped up to the first sample position.
C6_Witness ==
    /\ r_pc = "depth_done" /\ Len(ts) = 2 /\ ts[1] > 0 /\ ts[1] < ts[2]
    /\ Sum(weights) = 0
    /\ depth_out = AtSample(ts[1])

\* C7: a depth method other than "expected" is rejected at construction time
\* with a NotImplemented kind of error, and no DepthRenderer whose method is not
\* "expected" is ever constructed.
C7_RejectedAsNotImplemented ==
    /\ depth_method \in {"unset", "expected"}
    /\ (method_arg \notin {"unset", "expected"}) =>
          (r_pc = "raised" /\ r_err = "NotImplementedError")

\* C7 as amended: such a method is rejected at construction time with a
\* ValueError; no DepthRenderer whose method is not "expected" is ever
\* constructed, and forward never raises NotImplementedError.
C7_RejectedAsValueError ==
    /\ depth_method \in {"unset", "expected"}
    /\ (method_arg \notin {"unset", "expected"}) =>
          (r_pc = "raised" /\ r_err = "ValueError")
    /\ r_err # "NotImplementedError"

\* The constructor was asked for "median" and raised.
C7_Witness ==
    method_arg = "median" /\ r_pc = "raised" /\ r_err = "ValueError"
    /\ depth_method = "unset"

\* sum_i (weight_i * radiance_i) of channel c, times WUnit
WeightedRadiance(c) ==
    LET part[k \in 0..Len(rgb)] ==
            IF k = 0 THEN 0 ELSE part[k - 1] + weights[k] * rgb[k][c]
    IN  part[Len(rgb)]

\* C8: for a supplied background colour combine_rgb returns
\* sum_i(weight_i * radiance_i) + background * (1 - sum_i weight_i); with
\* all-zero weights that is exactly the background colour, and with weights
\* summing to 1 it is the same for every background colour.
C8_CombineRgb ==
    (r_pc = "rgb_done" /\ ~IsNone(background_color)) =>
        /\ \A c \in 1..3 :
              rgb_out[c] = WeightedRadiance(c)
                           + background_color[c] * (WUnit - Sum(weights))
        /\ Sum(weights) = 0 => rgb_out = [c \in 1..3 |-> WUnit * background_color[c]]
        /\ Sum(weights) = WUnit =>
              /\ rgb_out = [c \in 1..3 |-> WeightedRadiance(c)]
              /\ \A other \in Palette : combine_rgb(rgb, weights, other) = rgb_out

\* Two samples whose weights sum to 1 were composited over a white background.
C8_Witness ==
    /\ r_pc = "rgb_done" /\ Len(weights) = 2 /\ Sum(weights) = WUnit
    /\ weights[1] > 0 /\ weights[2] > 0
    /\ background_color = <<1000, 1000, 1000>>
    /\ rgb[1] # rgb[2]

\* The logistic sigmoid in thousandths, interpolated between its values at the
\* multiples of 0.5 from -4 to 4.
SigmoidTable ==
    <<18, 29, 47, 76, 119, 182, 269, 378, 500, 622, 731, 818, 881, 924, 953, 971, 982>>

Sigmoid(x) ==
    IF x <= -4000 THEN 18
    ELSE IF x >= 4000 THEN 982
    ELSE LET j == (x + 4000) \div 500
             r == (x + 4000) % 500
         IN  SigmoidTable[j + 1] + ((SigmoidTable[j + 2] - SigmoidTable[j + 1]) * r) \div 500

\* activation(x), for the configured activation
Activated(act, x) ==
    IF act = "Sigmoid" THEN Sigmoid(x)
    ELSE IF act = "ReLU_inplace" THEN (IF x < 0 THEN 0 ELSE x)
    ELSE x

\* sum_k coeff[c,k] * basis_k(direction) + 0.5, of sample i
BiasedBasisSum(i, c) ==
    LET coeff == View(sh[i])[c]
        basis == Components(Levels(Len(coeff)), directions[i])
    IN  Sum(Times(coeff, basis)) + 500

\* C9: for every sample and channel c, the radiance SHRenderer.forward hands to
\* combine_rgb is activation(sum_k coeff[c,k] * basis_k(direction) + 0.5) when an
\* activation is configured, and the biased sum itself when none is.
C9_BasisWeightedActivated ==
    r_pc = "sh_done" =>
        \A i \in 1..Len(sh), c \in 1..3 :
            sh_rgb[i][c] = Activated(activation, BiasedBasisSum(i, c))

=============================================================================
